---- MODULE Spec2Model ----
(***************************************************************************)
(* Model of aws_auto_inventory.output: the dispatch loop of                *)
(* OutputProcessor.process and the two writers it drives,                  *)
(* JSONOutputGenerator and ExcelOutputGenerator, with the pure helpers     *)
(* they share (result normalisation, resource counting, flattening, sheet  *)
(* name sanitisation).                                                     *)
(*                                                                         *)
(* Python values are tagged records:                                       *)
(*   None      [t |-> "none"]                                              *)
(*   bool      [t |-> "bool", v |-> TRUE]                                  *)
(*   int       [t |-> "int",  v |-> 3]                                     *)
(*   str       [t |-> "str",  v |-> "abc"]                                 *)
(*   datetime  [t |-> "datetime", v |-> "2024-01-01 00:00:00"]             *)
(*   list      [t |-> "list", v |-> << values >>]                          *)
(*   dict      [t |-> "dict", v |-> << [k |-> "key", v |-> value], .. >>]  *)
(*             (items in insertion order, keys unique)                     *)
(*   ScanResult object                                                     *)
(*             [t |-> "obj", inventory_name |-> "a", to_dict |-> dict]     *)
(* A Python exception is modelled by a predicate XRaises(args) beside the  *)
(* operator X(args) that gives the value when nothing is raised.           *)
(***************************************************************************)
EXTENDS Integers, Sequences, FiniteSets, TLC

VARIABLES
    results,          \* the results argument of process / generate
    formats,          \* the formats argument of process
    PANDAS_AVAILABLE, \* excel_generator.PANDAS_AVAILABLE
    hash_seed,        \* the interpreter's hash seed: decides how a set iterates
    pos,              \* 1-based position of the dispatch loop in formats
    status,           \* "running", "done" (process returned), "raised", "unit"
    error,            \* the exception type that left process, "" if none
    files,            \* the output directory: a set of [name, content]
    ran,              \* the format entries handled so far, with their outcome
    call,             \* unit specification: the helper applied, "" before
    arg,              \* unit specification: its argument
    ret               \* unit specification: its return value

vars == <<results, formats, PANDAS_AVAILABLE, hash_seed, pos, status, error, files, ran,
          call, arg, ret>>

-----------------------------------------------------------------------------
(* Python values *)

None == [t |-> "none"]
PyBool(b) == [t |-> "bool", v |-> b]
PyInt(n) == [t |-> "int", v |-> n]
PyString(s) == [t |-> "str", v |-> s]
DateTime(s) == [t |-> "datetime", v |-> s]
PyList(s) == [t |-> "list", v |-> s]
PyDict(items) == [t |-> "dict", v |-> items]
Item(k, v) == [k |-> k, v |-> v]
ScanResult(name, d) == [t |-> "obj", inventory_name |-> name, to_dict |-> d]

IsList(x) == x.t = "list"
IsDict(x) == x.t = "dict"
IsStr(x) == x.t = "str"

\* bool(x)
Truthy(x) ==
    CASE x.t = "none" -> FALSE
      [] x.t = "bool" -> x.v
      [] x.t = "int" -> x.v # 0
      [] x.t \in {"str", "list", "dict"} -> Len(x.v) > 0
      [] OTHER -> TRUE

\* key in d, d[key], d.get(key, default) and list(d.values()) of a dict d
HasKey(d, key) == \E i \in 1..Len(d.v) : d.v[i].k = key
GetItem(d, key) == d.v[CHOOSE i \in 1..Len(d.v) : d.v[i].k = key].v
Get(d, key, default) == IF HasKey(d, key) THEN GetItem(d, key) ELSE default
Values(d) == [i \in 1..Len(d.v) |-> d.v[i].v]

\* hash(x) raises TypeError for a list or a dict
Unhashable(x) == x.t \in {"list", "dict"}

\* s[i] of a string
CharAt(s, i) == SubSeq(s, i, i)

\* needle in s, for two strings
IsSubstring(needle, s) ==
    \E i \in 1..(Len(s) + 1) :
        /\ i + Len(needle) - 1 <= Len(s)
        /\ SubSeq(s, i, i + Len(needle) - 1) = needle

\* len(x): TypeError for a value that has no length
LenRaises(x) == x.t \notin {"list", "dict", "str"}
PyLen(x) == IF LenRaises(x) THEN 0 ELSE Len(x.v)

\* for e in x: TypeError for a value that is not iterable; a str yields its
\* characters, a dict its keys
IterRaises(x) == x.t \notin {"list", "dict", "str"}
Iter(x) ==
    CASE x.t = "list" -> x.v
      [] x.t = "dict" -> [i \in 1..Len(x.v) |-> PyString(x.v[i].k)]
      [] x.t = "str" -> [i \in 1..Len(x.v) |-> PyString(CharAt(x.v, i))]
      [] OTHER -> <<>>

\* "key" in x, the key a string literal: TypeError for a value that is no
\* container; membership for a list, key lookup for a dict, substring for a str
InRaises(x) == x.t \notin {"list", "dict", "str"}
In(key, x) ==
    CASE x.t = "dict" -> HasKey(x, key)
      [] x.t = "list" -> \E i \in 1..Len(x.v) : x.v[i] = PyString(key)
      [] x.t = "str" -> IsSubstring(key, x.v)
      [] OTHER -> FALSE

\* x["key"] once "key" in x held: TypeError unless x is a dict
SubscriptRaises(x) == x.t # "dict"

-----------------------------------------------------------------------------
(* str() and repr() *)

Digits == <<"0", "1", "2", "3", "4", "5", "6", "7", "8", "9">>

RECURSIVE NatStr(_)
NatStr(n) == IF n < 10 THEN Digits[n + 1]
             ELSE NatStr(n \div 10) \o Digits[(n % 10) + 1]

IntStr(n) == IF n < 0 THEN "-" \o NatStr(-n) ELSE NatStr(n)

RECURSIVE Repr(_)
RECURSIVE ReprList(_, _)
RECURSIVE ReprItems(_, _)
ReprList(s, i) ==
    IF i > Len(s) THEN ""
    ELSE (IF i > 1 THEN ", " ELSE "") \o Repr(s[i]) \o ReprList(s, i + 1)
ReprItems(s, i) ==
    IF i > Len(s) THEN ""
    ELSE (IF i > 1 THEN ", " ELSE "") \o "'" \o s[i].k \o "': "
         \o Repr(s[i].v) \o ReprItems(s, i + 1)
Repr(x) ==
    CASE x.t = "none" -> "None"
      [] x.t = "bool" -> IF x.v THEN "True" ELSE "False"
      [] x.t = "int" -> IntStr(x.v)
      [] x.t = "str" -> "'" \o x.v \o "'"
      [] x.t = "datetime" -> "datetime(" \o x.v \o ")"
      [] x.t = "list" -> "[" \o ReprList(x.v, 1) \o "]"
      [] x.t = "dict" -> "{" \o ReprItems(x.v, 1) \o "}"
      [] OTHER -> "<object>"

PyStr(x) == IF x.t \in {"str", "datetime"} THEN x.v ELSE Repr(x)

-----------------------------------------------------------------------------
(* Small sequence and dict helpers *)

RECURSIVE Concat(_, _)
\* the concatenation of the sequences ss[i], ss[i+1], ...
Concat(ss, i) == IF i > Len(ss) THEN <<>> ELSE ss[i] \o Concat(ss, i + 1)

RECURSIVE SumFrom(_, _)
\* ns[i] + ns[i+1] + ...
SumFrom(ns, i) == IF i > Len(ns) THEN 0 ELSE ns[i] + SumFrom(ns, i + 1)

\* d[key] = value on the items of a dict: an existing key keeps its place
SetItem(items, key, value) ==
    IF \E i \in 1..Len(items) : items[i].k = key
    THEN [i \in 1..Len(items) |->
             IF items[i].k = key THEN Item(key, value) ELSE items[i]]
    ELSE Append(items, Item(key, value))

RECURSIVE DictOf(_, _, _)
\* dict(pairs), or {**a, **b}: the pairs from i on, set one by one on acc
DictOf(pairs, i, acc) ==
    IF i > Len(pairs) THEN acc
    ELSE DictOf(pairs, i + 1, SetItem(acc, pairs[i].k, pairs[i].v))

-----------------------------------------------------------------------------
(* ResultNormalizer: _process_results, the same code in both generators *)

RECURSIVE ProcessResultsFrom(_, _, _)
\* The loop over the list: processed is the dict built so far (its items).
ProcessResultsFrom(rs, i, processed) ==
    IF i > Len(rs) THEN processed
    ELSE LET scan_result == rs[i]
         IN  IF scan_result.t = "obj"
             THEN ProcessResultsFrom(rs, i + 1,
                      SetItem(processed, scan_result.inventory_name,
                              scan_result.to_dict))
             ELSE ProcessResultsFrom(rs, i + 1,
                      SetItem(processed, "result_" \o IntStr(Len(processed)),
                              scan_result))

ProcessResults(rs) ==
    IF IsList(rs) THEN PyDict(ProcessResultsFrom(rs.v, 1, <<>>)) ELSE rs

-----------------------------------------------------------------------------
(* ResourceCounter: _count_service_resources, the same code in both        *)
(* generators                                                              *)

\* Mutant: "Items" moved ahead of "Buckets" in the priority list
KnownKeys_ItemsFirst ==
    <<"Reservations", "Items", "Buckets", "Roles", "Functions", "Instances">>

KnownKeys == <<"Reservations", "Buckets", "Roles", "Functions", "Instances",
               "Items">>

\* The position in KnownKeys of the first key that result_data holds with a
\* list value (the key at which the for loop returns), 0 if there is none.
FirstKnownKey(result_data) ==
    LET hit(i) == /\ HasKey(result_data, KnownKeys[i])
                  /\ IsList(GetItem(result_data, KnownKeys[i]))
    IN  IF \E i \in 1..Len(KnownKeys) : hit(i)
        THEN CHOOSE i \in 1..Len(KnownKeys) :
                 hit(i) /\ \A j \in 1..(i - 1) : ~hit(j)
        ELSE 0

\* A reservation whose "Instances" is counted
HasInstances(reservation) ==
    IsDict(reservation) /\ HasKey(reservation, "Instances")

\* Mutant: the reservations themselves are counted
ReservationInstanceCount_TopLevel(value) == Len(value)

\* instance_count after the loop over the reservations
ReservationInstanceCount(value) ==
    SumFrom([i \in 1..Len(value) |->
                IF HasInstances(value[i])
                THEN PyLen(GetItem(value[i], "Instances")) ELSE 0], 1)

\* len(reservation["Instances"]) raises on a value without a length
ReservationCountRaises(value) ==
    \E i \in 1..Len(value) :
        HasInstances(value[i]) /\ LenRaises(GetItem(value[i], "Instances"))

\* The fallback loop over result_data.values()
FirstListValueCount(result_data) ==
    LET vs == Values(result_data)
    IN  IF \E i \in 1..Len(vs) : IsList(vs[i])
        THEN Len(vs[CHOOSE i \in 1..Len(vs) :
                        IsList(vs[i]) /\ \A j \in 1..(i - 1) : ~IsList(vs[j])].v)
        ELSE 0

CountServiceResources(result_data) ==
    IF IsList(result_data) THEN Len(result_data.v)
    ELSE IF IsDict(result_data)
    THEN LET n == FirstKnownKey(result_data)
         IN  IF n # 0
             THEN IF KnownKeys[n] = "Reservations"
                  THEN ReservationInstanceCount(
                           GetItem(result_data, "Reservations").v)
                  ELSE Len(GetItem(result_data, KnownKeys[n]).v)
             ELSE FirstListValueCount(result_data)
    ELSE 0

CountServiceResourcesRaises(result_data) ==
    /\ IsDict(result_data)
    /\ FirstKnownKey(result_data) # 0
    /\ KnownKeys[FirstKnownKey(result_data)] = "Reservations"
    /\ ReservationCountRaises(GetItem(result_data, "Reservations").v)

\* ExcelOutputGenerator carries its own copies of _process_results and
\* _count_service_resources, line for line those of JSONOutputGenerator
ExcelProcessResults(rs) == ProcessResults(rs)
\* Mutant: a list payload counts its mappings only
ExcelCountServiceResources_MappingsOnly(result_data) ==
    IF IsList(result_data)
    THEN Cardinality({i \in 1..Len(result_data.v) : IsDict(result_data.v[i])})
    ELSE CountServiceResources(result_data)

ExcelCountServiceResources(result_data) == CountServiceResources(result_data)
ExcelCountServiceResourcesRaises(result_data) ==
    CountServiceResourcesRaises(result_data)

-----------------------------------------------------------------------------
(* ResourceFlattener: _flatten_dict and _flatten_service_result *)

RECURSIVE FlattenDict(_, _, _)
RECURSIVE FlattenPairs(_, _, _, _)
\* The list `items` of _flatten_dict, from the i-th item of d on
FlattenPairs(its, i, parent_key, sep) ==
    IF i > Len(its) THEN <<>>
    ELSE LET k == its[i].k
             v == its[i].v
             new_key == IF parent_key # "" THEN parent_key \o sep \o k ELSE k
         IN  (IF IsDict(v) THEN FlattenDict(v, new_key, sep).v
              ELSE IF IsList(v) THEN <<Item(new_key, PyString(PyStr(v)))>>
              ELSE IF v.t = "datetime" THEN <<Item(new_key, PyString(PyStr(v)))>>
              ELSE <<Item(new_key, v)>>)
             \o FlattenPairs(its, i + 1, parent_key, sep)

\* Mutant: nested mappings are kept, not merged into the parent
FlattenDict_Shallow(d, parent_key, sep) ==
    PyDict([i \in 1..Len(d.v) |->
               Item(IF parent_key # "" THEN parent_key \o sep \o d.v[i].k
                    ELSE d.v[i].k, d.v[i].v)])

FlattenDict(d, parent_key, sep) ==
    PyDict(DictOf(FlattenPairs(d.v, 1, parent_key, sep), 1, <<>>))

\* {'Inventory': inventory, 'Region': region, 'Service': service, **rest}
Record(inventory, region, service, rest) ==
    PyDict(DictOf(<<Item("Inventory", inventory), Item("Region", region),
                    Item("Service", service)>> \o rest, 1, <<>>))

\* The records of the dicts among the elements of a list, in order
DictRecords(elems, inventory, region, service) ==
    Concat([i \in 1..Len(elems) |->
               IF IsDict(elems[i])
               THEN <<Record(inventory, region, service,
                             FlattenDict(elems[i], "", "_").v)>>
               ELSE <<>>], 1)

\* The special case holds for the service "ec2" with a "Reservations" key
IsEc2Reservations(result_data, service) ==
    service = PyString("ec2") /\ HasKey(result_data, "Reservations")

FlattenServiceResult(result_data, inventory, region, service) ==
    IF IsList(result_data)
    THEN [i \in 1..Len(result_data.v) |->
             LET resource == result_data.v[i]
             IN  IF IsDict(resource)
                 THEN Record(inventory, region, service,
                             FlattenDict(resource, "", "_").v)
                 ELSE Record(inventory, region, service,
                             <<Item("Resource", PyString(PyStr(resource)))>>)]
    ELSE IF IsDict(result_data)
    THEN IF IsEc2Reservations(result_data, service)
         THEN LET rsv == Iter(GetItem(result_data, "Reservations"))
              IN  Concat([i \in 1..Len(rsv) |->
                             IF HasInstances(rsv[i])
                             THEN DictRecords(
                                      Iter(GetItem(rsv[i], "Instances")),
                                      inventory, region, service)
                             ELSE <<>>], 1)
         ELSE LET vs == Values(result_data)
              IN  Concat([i \in 1..Len(vs) |->
                             IF IsList(vs[i])
                             THEN DictRecords(vs[i].v, inventory, region,
                                              service)
                             ELSE <<>>], 1)
    ELSE <<>>

\* Iterating "Reservations" or an "Instances" value that is not iterable
FlattenServiceResultRaises(result_data, service) ==
    /\ IsDict(result_data)
    /\ IsEc2Reservations(result_data, service)
    /\ LET r == GetItem(result_data, "Reservations")
       IN  \/ IterRaises(r)
           \/ \E i \in 1..Len(Iter(r)) :
                  /\ HasInstances(Iter(r)[i])
                  /\ IterRaises(GetItem(Iter(r)[i], "Instances"))

-----------------------------------------------------------------------------
(* SummaryBuilder of the JSON writer: _generate_summary,                   *)
(* _count_account_resources, _count_region_resources.  The accumulator acc *)
(* holds what the Python code passes by reference: total (the running      *)
(* inventory_resources), regions, services (the two sets of the inventory) *)
(* and tally (summary["services"], items in insertion order).              *)

\* One iteration of the loop over region_result["services"]
CountServiceStep(acc, service_result) ==
    IF ~IsDict(service_result) THEN acc
    ELSE LET service_name == Get(service_result, "service", PyString("unknown"))
             acc1 == [acc EXCEPT !.services = @ \cup {service_name}]
         IN  IF /\ Truthy(Get(service_result, "success", PyBool(FALSE)))
                /\ HasKey(service_result, "result")
             THEN LET resource_count ==
                          CountServiceResources(GetItem(service_result, "result"))
                      old == IF \E i \in 1..Len(acc.tally) :
                                    acc.tally[i].k = service_name
                             THEN acc.tally[CHOOSE i \in 1..Len(acc.tally) :
                                      acc.tally[i].k = service_name].v
                             ELSE 0
                  IN  [acc1 EXCEPT !.total = @ + resource_count,
                                   !.tally = SetItem(@, service_name,
                                                     old + resource_count)]
             ELSE acc1

\* What raises within one iteration: services.add(service_name) on an
\* unhashable name, or the counter
CountServiceStepRaises(service_result) ==
    /\ IsDict(service_result)
    /\ \/ Unhashable(Get(service_result, "service", PyString("unknown")))
       \/ /\ Truthy(Get(service_result, "success", PyBool(FALSE)))
          /\ HasKey(service_result, "result")
          /\ CountServiceResourcesRaises(GetItem(service_result, "result"))

RECURSIVE CountServicesFrom(_, _, _)
CountServicesFrom(srs, i, acc) ==
    IF i > Len(srs) THEN acc
    ELSE CountServicesFrom(srs, i + 1, CountServiceStep(acc, srs[i]))

\* acc after the call; the value returned is the growth of acc.total
CountRegionResources(region_result, acc) ==
    LET acc1 == IF In("region", region_result)
                THEN [acc EXCEPT !.regions =
                                     @ \cup {GetItem(region_result, "region")}]
                ELSE acc
    IN  IF In("services", region_result)
        THEN CountServicesFrom(Iter(GetItem(region_result, "services")), 1, acc1)
        ELSE acc1

\* region_result is not guarded by isinstance(region_result, dict) here
CountRegionResourcesRaises(region_result) ==
    \/ InRaises(region_result)
    \/ /\ In("region", region_result)
       /\ \/ SubscriptRaises(region_result)
          \/ Unhashable(GetItem(region_result, "region"))
    \/ /\ In("services", region_result)
       /\ \/ SubscriptRaises(region_result)
          \/ IterRaises(GetItem(region_result, "services"))
          \/ \E i \in 1..Len(Iter(GetItem(region_result, "services"))) :
                 CountServiceStepRaises(
                     Iter(GetItem(region_result, "services"))[i])

\* Organization scanning is not implemented: the account adds nothing
CountAccountResources(account_result, acc) == acc

RECURSIVE CountRegionsFrom(_, _, _)
CountRegionsFrom(rrs, i, acc) ==
    IF i > Len(rrs) THEN acc
    ELSE CountRegionsFrom(rrs, i + 1, CountRegionResources(rrs[i], acc))

RECURSIVE CountAccountsFrom(_, _, _)
CountAccountsFrom(ars, i, acc) ==
    IF i > Len(ars) THEN acc
    ELSE CountAccountsFrom(ars, i + 1, CountAccountResources(ars[i], acc))

\* datetime.now(), as the strings the two strftime/isoformat calls give
ScanTimestamp == "2024-01-01T00:00:00"
FileTimestamp == "20240101_000000"

\* Two seeds: they give a set of two or more elements two different orders
HashSeeds == 0..1

RECURSIVE OrderedBy(_, _)
\* The elements of S in the order the seed decides: every order of S is
\* the order of some seed below the factorial of its size
OrderedBy(S, seed) ==
    IF S = {} THEN <<>>
    ELSE LET x == CHOOSE y \in S : TRUE
             n == Cardinality(S)
             rest == OrderedBy(S \ {x}, seed \div n)
             p == seed % n
         IN  SubSeq(rest, 1, p) \o <<x>> \o SubSeq(rest, p + 1, n - 1)

\* Mutant: a set iterates differently on every call of the writer
ListOfSet_VariesByCall(S) == OrderedBy(S, hash_seed + Len(ran))

\* list(a_set): the iteration order of a set is decided by the hashes of
\* its elements, which are fixed for the life of the interpreter
ListOfSet(S) == OrderedBy(S, hash_seed)

EmptySummary ==
    [scan_timestamp |-> ScanTimestamp,
     total_inventories |-> 0, total_regions |-> 0, total_services |-> 0,
     total_resources |-> 0, inventories |-> <<>>, services |-> <<>>]

\* One iteration of the loop over results.items()
SummaryStep(summary, inventory_name, inventory_data) ==
    IF ~IsDict(inventory_data) THEN summary
    ELSE LET acc0 == [total |-> 0, regions |-> {}, services |-> {},
                      tally |-> summary.services]
             acc == IF HasKey(inventory_data, "organization_results")
                    THEN CountAccountsFrom(
                             Iter(GetItem(inventory_data, "organization_results")),
                             1, acc0)
                    ELSE IF HasKey(inventory_data, "account_results")
                    THEN CountRegionsFrom(
                             Iter(GetItem(inventory_data, "account_results")),
                             1, acc0)
                    ELSE acc0
         IN  [summary EXCEPT
                 !.total_inventories = @ + 1,
                 !.total_regions = @ + Cardinality(acc.regions),
                 !.total_services = @ + Cardinality(acc.services),
                 !.total_resources = @ + acc.total,
                 !.services = acc.tally,
                 !.inventories = SetItem(@, inventory_name,
                     [total_resources |-> acc.total,
                      regions |-> ListOfSet(acc.regions),
                      services |-> ListOfSet(acc.services)])]

SummaryStepRaises(inventory_data) ==
    /\ IsDict(inventory_data)
    /\ IF HasKey(inventory_data, "organization_results")
       THEN IterRaises(GetItem(inventory_data, "organization_results"))
       ELSE /\ HasKey(inventory_data, "account_results")
            /\ LET rrs == GetItem(inventory_data, "account_results")
               IN  \/ IterRaises(rrs)
                   \/ \E i \in 1..Len(Iter(rrs)) :
                          CountRegionResourcesRaises(Iter(rrs)[i])

RECURSIVE GenerateSummaryFrom(_, _, _)
GenerateSummaryFrom(its, i, summary) ==
    IF i > Len(its) THEN summary
    ELSE GenerateSummaryFrom(its, i + 1,
                             SummaryStep(summary, its[i].k, its[i].v))

\* results is the processed dict
GenerateSummary(rs) == GenerateSummaryFrom(rs.v, 1, EmptySummary)

GenerateSummaryRaises(rs) ==
    \E i \in 1..Len(rs.v) : SummaryStepRaises(rs.v[i].v)

-----------------------------------------------------------------------------
(* Tabular writer: _sanitize_sheet_name, _create_summary_dataframe,        *)
(* _extract_service_data, _write_excel_file                                *)

MaxSheetNameLen == 31

\* Mutant: the question mark is not in the list
invalid_chars_NoQuestionMark == <<"\\", "/", "*", "[", "]", ":">>

invalid_chars == <<"\\", "/", "*", "[", "]", ":", "?">>

RECURSIVE Replace(_, _, _)
\* s.replace(old, new) for a one-character old
Replace(s, old, new) ==
    IF Len(s) = 0 THEN ""
    ELSE (IF CharAt(s, 1) = old THEN new ELSE CharAt(s, 1))
         \o Replace(SubSeq(s, 2, Len(s)), old, new)

RECURSIVE ReplaceAllFrom(_, _)
\* the loop over invalid_chars
ReplaceAllFrom(s, i) ==
    IF i > Len(invalid_chars) THEN s
    ELSE ReplaceAllFrom(Replace(s, invalid_chars[i], "_"), i + 1)

\* Mutant: the hyphen is replaced as well
SanitizeSheetName_HyphenToo(name) ==
    LET sanitized == ReplaceAllFrom(Replace(name, "-", "_"), 1)
    IN  IF Len(sanitized) > MaxSheetNameLen
        THEN SubSeq(sanitized, 1, MaxSheetNameLen)
        ELSE sanitized

\* name is the Python string's text
SanitizeSheetName(name) ==
    LET sanitized == ReplaceAllFrom(name, 1)
    IN  IF Len(sanitized) > MaxSheetNameLen
        THEN SubSeq(sanitized, 1, MaxSheetNameLen)
        ELSE sanitized

\* The walk both _create_summary_dataframe and _extract_service_data make:
\* the service results visited, with their inventory and region, in order.
VisitedInRegion(inventory_name, region_result) ==
    IF IsDict(region_result) /\ HasKey(region_result, "region")
                             /\ HasKey(region_result, "services")
    THEN LET srs == Iter(GetItem(region_result, "services"))
         IN  Concat([i \in 1..Len(srs) |->
                        IF IsDict(srs[i])
                        THEN <<[inventory |-> inventory_name,
                                region |-> GetItem(region_result, "region"),
                                sr |-> srs[i]]>>
                        ELSE <<>>], 1)
    ELSE <<>>

\* The region results of an inventory that the walk enters
WalkedRegions(inventory_data) ==
    IF /\ IsDict(inventory_data)
       /\ ~HasKey(inventory_data, "organization_results")
       /\ HasKey(inventory_data, "account_results")
    THEN Iter(GetItem(inventory_data, "account_results"))
    ELSE <<>>

VisitedServices(rs) ==
    Concat([n \in 1..Len(rs.v) |->
               LET rrs == WalkedRegions(rs.v[n].v)
               IN  Concat([i \in 1..Len(rrs) |->
                              VisitedInRegion(rs.v[n].k, rrs[i])], 1)], 1)

\* The walk iterates an "account_results" or "services" value that is not
\* iterable
WalkRaises(rs) ==
    \E n \in 1..Len(rs.v) :
        LET inventory_data == rs.v[n].v
        IN  /\ IsDict(inventory_data)
            /\ ~HasKey(inventory_data, "organization_results")
            /\ HasKey(inventory_data, "account_results")
            /\ \/ IterRaises(GetItem(inventory_data, "account_results"))
               \/ \E i \in 1..Len(WalkedRegions(inventory_data)) :
                      LET rr == WalkedRegions(inventory_data)[i]
                      IN  /\ IsDict(rr) /\ HasKey(rr, "region")
                          /\ HasKey(rr, "services")
                          /\ IterRaises(GetItem(rr, "services"))

\* Mutant: the success flag is not looked at
Counted_IgnoresSuccess(service_result) == HasKey(service_result, "result")

\* success and "result" in service_result
Counted(service_result) ==
    /\ Truthy(Get(service_result, "success", PyBool(FALSE)))
    /\ HasKey(service_result, "result")

\* The row appended to summary_data for one visited service result
SummaryRow(visit) ==
    [Inventory |-> PyString(visit.inventory),
     Region |-> visit.region,
     Service |-> Get(visit.sr, "service", PyString("unknown")),
     ResourceCount |-> IF Counted(visit.sr)
                       THEN ExcelCountServiceResources(
                                GetItem(visit.sr, "result"))
                       ELSE 0,
     Status |-> IF Truthy(Get(visit.sr, "success", PyBool(FALSE)))
                THEN "Success" ELSE "Failed"]

CreateSummaryDataframe(rs) ==
    LET vis == VisitedServices(rs)
    IN  [i \in 1..Len(vis) |-> SummaryRow(vis[i])]

CreateSummaryDataframeRaises(rs) ==
    \/ WalkRaises(rs)
    \/ \E i \in 1..Len(VisitedServices(rs)) :
           LET sr == VisitedServices(rs)[i].sr
           IN  /\ Counted(sr)
               /\ ExcelCountServiceResourcesRaises(GetItem(sr, "result"))

\* Mutant: the records of a service are assigned, not extended
ExtractStep_Overwrite(service_data, visit) ==
    IF Counted(visit.sr)
    THEN LET service_name == Get(visit.sr, "service", PyString("unknown"))
         IN  SetItem(service_data, service_name,
                 FlattenServiceResult(GetItem(visit.sr, "result"),
                     PyString(visit.inventory), visit.region, service_name))
    ELSE service_data

\* One visited service result: service_data[service_name].extend(resources)
ExtractStep(service_data, visit) ==
    IF Counted(visit.sr)
    THEN LET service_name == Get(visit.sr, "service", PyString("unknown"))
             resources == FlattenServiceResult(GetItem(visit.sr, "result"),
                              PyString(visit.inventory), visit.region,
                              service_name)
             old == IF \E i \in 1..Len(service_data) :
                           service_data[i].k = service_name
                    THEN service_data[CHOOSE i \in 1..Len(service_data) :
                             service_data[i].k = service_name].v
                    ELSE <<>>
         IN  SetItem(service_data, service_name, old \o resources)
    ELSE service_data

RECURSIVE ExtractFrom(_, _, _)
ExtractFrom(vis, i, service_data) ==
    IF i > Len(vis) THEN service_data
    ELSE ExtractFrom(vis, i + 1, ExtractStep(service_data, vis[i]))

\* service_data: items [k |-> service name, v |-> records], insertion order
ExtractServiceData(rs) == ExtractFrom(VisitedServices(rs), 1, <<>>)

ExtractServiceDataRaises(rs) ==
    \/ WalkRaises(rs)
    \/ \E i \in 1..Len(VisitedServices(rs)) :
           LET sr == VisitedServices(rs)[i].sr
               service_name == Get(sr, "service", PyString("unknown"))
           IN  /\ Counted(sr)
               /\ \/ Unhashable(service_name)
                  \/ FlattenServiceResultRaises(GetItem(sr, "result"),
                                                service_name)

\* The workbook _write_excel_file writes: the Summary sheet, then one sheet
\* for every service with at least one record
Workbook(rs) ==
    LET service_data == ExtractServiceData(rs)
    IN  [summary |-> CreateSummaryDataframe(rs),
         sheets |-> Concat([i \in 1..Len(service_data) |->
                               IF Len(service_data[i].v) > 0
                               THEN <<[name |-> SanitizeSheetName(
                                                    service_data[i].k.v),
                                       rows |-> service_data[i].v]>>
                               ELSE <<>>], 1)]

\* name.replace on a service name that is not a str
SanitizeRaises(rs) ==
    \E i \in 1..Len(ExtractServiceData(rs)) :
        /\ Len(ExtractServiceData(rs)[i].v) > 0
        /\ ~IsStr(ExtractServiceData(rs)[i].k)

WriteExcelFileRaises(rs) ==
    \/ CreateSummaryDataframeRaises(rs)
    \/ ExtractServiceDataRaises(rs)
    \/ SanitizeRaises(rs)

-----------------------------------------------------------------------------
(* The output directory and the two generate methods *)

MainFile == "aws_inventory_" \o FileTimestamp \o ".json"
SummaryFile == "aws_inventory_summary_" \o FileTimestamp \o ".json"
ExcelFile == "aws_inventory_" \o FileTimestamp \o ".xlsx"

\* open(filepath, 'w') and a complete write: fs maps the names of the files
\* of the output directory to their content
WriteFile(fs, name, content) ==
    [n \in DOMAIN fs \cup {name} |-> IF n = name THEN content ELSE fs[n]]

RECURSIVE JsonDump(_)
\* json.dump(data, default=str): a value json cannot encode is written as
\* its str()
JsonDump(x) ==
    CASE x.t = "list" -> PyList([i \in 1..Len(x.v) |-> JsonDump(x.v[i])])
      [] x.t = "dict" ->
            PyDict([i \in 1..Len(x.v) |-> Item(x.v[i].k, JsonDump(x.v[i].v))])
      [] x.t \in {"datetime", "obj"} -> PyString(PyStr(x))
      [] OTHER -> x

\* JSONOutputGenerator.generate: the main file is written before the summary
\* is built, so it stays behind when _generate_summary raises
JsonGenerateRaises(rs) == GenerateSummaryRaises(ProcessResults(rs))

\* Mutant: the JSON writer starts from an emptied output directory
JsonGenerateFiles_FreshDirectory(fs, rs) ==
    LET processed_results == ProcessResults(rs)
        fs1 == WriteFile(<<>>, MainFile, JsonDump(processed_results))
    IN  IF GenerateSummaryRaises(processed_results) THEN fs1
        ELSE WriteFile(fs1, SummaryFile, GenerateSummary(processed_results))

JsonGenerateFiles(fs, rs) ==
    LET processed_results == ProcessResults(rs)
        fs1 == WriteFile(fs, MainFile, JsonDump(processed_results))
    IN  IF GenerateSummaryRaises(processed_results) THEN fs1
        ELSE WriteFile(fs1, SummaryFile, GenerateSummary(processed_results))

\* Mutant: PANDAS_AVAILABLE is not checked
ExcelImportError_Unchecked(pandas) == FALSE

\* ExcelOutputGenerator.generate: the ImportError comes first
ExcelImportError(pandas) == ~pandas

ExcelGenerateRaises(pandas, rs) ==
    ExcelImportError(pandas) \/ WriteExcelFileRaises(ExcelProcessResults(rs))

ExcelGenerateFiles(fs, rs) ==
    WriteFile(fs, ExcelFile, Workbook(ExcelProcessResults(rs)))

\* What pd.ExcelWriter leaves on disk when the body of the with statement
\* raises is decided by pandas and openpyxl, not by this code: the file may
\* be absent or hold an incomplete workbook
PartialWorkbook == [summary |-> <<>>, sheets |-> <<>>, incomplete |-> TRUE]

-----------------------------------------------------------------------------
(* OutputProcessor.process *)

KnownFormats == {"json", "excel"}

Running == status = "running" /\ pos <= Len(formats)

UnitVarsUnchanged == UNCHANGED <<call, arg, ret>>

\* format_type == "json": _process_json logs and re-raises
ProcessJson ==
    /\ Running
    /\ formats[pos] = "json"
    /\ files' = JsonGenerateFiles(files, results)
    /\ IF JsonGenerateRaises(results)
       THEN /\ status' = "raised"
            /\ error' = "TypeError"
            /\ ran' = Append(ran, [format |-> "json", outcome |-> "raised"])
            /\ pos' = pos
       ELSE /\ ran' = Append(ran, [format |-> "json", outcome |-> "ok"])
            /\ pos' = pos + 1
            /\ UNCHANGED <<status, error>>
    /\ UNCHANGED <<results, formats, PANDAS_AVAILABLE, hash_seed>>
    /\ UnitVarsUnchanged

\* format_type == "excel": _process_excel logs and re-raises
ProcessExcel ==
    /\ Running
    /\ formats[pos] = "excel"
    /\ IF ExcelImportError(PANDAS_AVAILABLE)
       THEN /\ status' = "raised"
            /\ error' = "ImportError"
            /\ ran' = Append(ran, [format |-> "excel", outcome |-> "raised"])
            /\ UNCHANGED <<files, pos>>
       ELSE IF ExcelGenerateRaises(PANDAS_AVAILABLE, results)
       THEN /\ status' = "raised"
            /\ error' = IF SanitizeRaises(ExcelProcessResults(results))
                           /\ ~CreateSummaryDataframeRaises(
                                   ExcelProcessResults(results))
                           /\ ~ExtractServiceDataRaises(
                                   ExcelProcessResults(results))
                        THEN "AttributeError" ELSE "TypeError"
            /\ ran' = Append(ran, [format |-> "excel", outcome |-> "raised"])
            /\ \/ files' = files
               \/ files' = WriteFile(files, ExcelFile, PartialWorkbook)
            /\ pos' = pos
       ELSE /\ files' = ExcelGenerateFiles(files, results)
            /\ ran' = Append(ran, [format |-> "excel", outcome |-> "ok"])
            /\ pos' = pos + 1
            /\ UNCHANGED <<status, error>>
    /\ UNCHANGED <<results, formats, PANDAS_AVAILABLE, hash_seed>>
    /\ UnitVarsUnchanged

\* Mutant: an unknown format raises
ProcessUnknown_Raises ==
    /\ Running
    /\ formats[pos] \notin KnownFormats
    /\ status' = "raised"
    /\ error' = "ValueError"
    /\ ran' = Append(ran, [format |-> formats[pos], outcome |-> "raised"])
    /\ UNCHANGED <<results, formats, PANDAS_AVAILABLE, hash_seed, pos, files>>
    /\ UnitVarsUnchanged

\* any other format_type: a warning is logged
ProcessUnknown ==
    /\ Running
    /\ formats[pos] \notin KnownFormats
    /\ ran' = Append(ran, [format |-> formats[pos], outcome |-> "skipped"])
    /\ pos' = pos + 1
    /\ UNCHANGED <<results, formats, PANDAS_AVAILABLE, hash_seed, status, error, files>>
    /\ UnitVarsUnchanged

\* the for loop is exhausted: process returns None
ProcessReturn ==
    /\ status = "running"
    /\ pos > Len(formats)
    /\ status' = "done"
    /\ UNCHANGED <<results, formats, PANDAS_AVAILABLE, hash_seed, pos, error, files, ran>>
    /\ UnitVarsUnchanged

Next == ProcessJson \/ ProcessExcel \/ ProcessUnknown \/ ProcessReturn

RECURSIVE DispatchFrom(_, _, _, _, _, _)
\* The for loop of process from the i-th entry of fmts on, as one run on the
\* directory fs: how it ends and the files it leaves.  partial says whether
\* the spreadsheet library leaves a file when the tabular writer raises.
DispatchFrom(fmts, i, fs, rs, pandas, partial) ==
    IF i > Len(fmts) THEN [status |-> "done", files |-> fs]
    ELSE IF fmts[i] = "json"
    THEN IF JsonGenerateRaises(rs)
         THEN [status |-> "raised", files |-> JsonGenerateFiles(fs, rs)]
         ELSE DispatchFrom(fmts, i + 1, JsonGenerateFiles(fs, rs), rs, pandas,
                           partial)
    ELSE IF fmts[i] = "excel"
    THEN IF ExcelImportError(pandas) THEN [status |-> "raised", files |-> fs]
         ELSE IF ExcelGenerateRaises(pandas, rs)
         THEN [status |-> "raised",
               files |-> IF partial
                         THEN WriteFile(fs, ExcelFile, PartialWorkbook)
                         ELSE fs]
         ELSE DispatchFrom(fmts, i + 1, ExcelGenerateFiles(fs, rs), rs, pandas,
                           partial)
    ELSE DispatchFrom(fmts, i + 1, fs, rs, pandas, partial)

-----------------------------------------------------------------------------
(* Inputs *)

MaxLen == 2        \* longest generated list payload and dict payload
MaxInstances == 3  \* most instances in a generated reservation
MaxFormats == 3    \* longest formats list
MaxServices == 2   \* most service results in a generated region result
MaxScan == 3       \* longest generated list of scan results
MaxNameTail == 2   \* longest generated end of a service name

\* All sequences over S of length at most n
SeqsUpTo(S, n) == UNION {[1..k -> S] : k \in 0..n}

\* Resources as the services return them
Flat == PyDict(<<Item("a", PyInt(1)),
                 Item("b", PyDict(<<Item("c", PyInt(2))>>))>>)
Bucket == PyDict(<<Item("Name", PyString("logs")),
                   Item("Tags", PyList(<<PyString("x")>>)),
                   Item("Created", DateTime("2024-01-01 00:00:00"))>>)
Resources == {Flat, Bucket, PyString("arn")}

\* Reservations: with 0..MaxInstances instances, without "Instances", with an
\* "Instances" value that is no list, and entries that are no dict
Reservation(n) ==
    PyDict(<<Item("ReservationId", PyString("r")),
             Item("Instances", PyList([i \in 1..n |-> Flat]))>>)
Reservations ==
    {Reservation(n) : n \in 0..MaxInstances}
    \cup {PyDict(<<Item("ReservationId", PyString("r"))>>),
          PyDict(<<Item("Instances", None)>>),
          PyDict(<<Item("Instances", PyString("i-1"))>>),
          PyString("r-1")}

\* Values of the fields of a dict payload
FieldValues ==
    {PyList(<<>>), PyList(<<Flat>>), PyList(<<Bucket, PyString("arn")>>),
     PyInt(7)}
FieldKeys == {"Buckets", "Items", "Vpcs", "NextToken"}

\* dict payloads of at most MaxLen fields, in every key order
DictPayloads ==
    {PyDict(its) : its \in
        {s \in SeqsUpTo({Item(k, v) : k \in FieldKeys, v \in FieldValues}, MaxLen) :
            \A i, j \in 1..Len(s) : i # j => s[i].k # s[j].k}}

\* dict payloads with "Reservations", alone or beside another field
ReservationPayloads ==
    LET lists == {PyList(r) : r \in SeqsUpTo(Reservations, 2)} \cup {None}
    IN  {PyDict(<<Item("Reservations", r)>>) : r \in lists}
        \cup {PyDict(<<Item("Buckets", PyList(<<Bucket>>)),
                       Item("Reservations", r)>>) : r \in lists}
        \cup {PyDict(<<Item("Vpcs", PyList(<<Flat, Flat>>)),
                       Item("Reservations", r)>>) : r \in lists}

ListPayloads == {PyList(s) : s \in SeqsUpTo(Resources, MaxLen)}

ScalarPayloads == {None, PyInt(3), PyString("denied"), Flat}

Payloads ==
    ListPayloads \cup DictPayloads \cup ReservationPayloads \cup ScalarPayloads

\* Lists handed to _process_results: ScanResult objects and other objects
InventoryNames == {"prod", "result_0", "result_1"}
ScanItems ==
    {ScanResult(n, PyDict(<<Item("inventory_name", PyString(n))>>)) :
        n \in InventoryNames}
    \cup {PyDict(<<Item("raw", PyInt(1))>>), PyString("stray")}
ScanLists == {PyList(s) : s \in SeqsUpTo(ScanItems, MaxScan)}

\* Service results: {"service": .., "success": .., "result": ..}
ServiceResult(service, success, result) ==
    PyDict(<<Item("service", service), Item("success", success),
             Item("result", result)>>)

TwoBuckets == PyList(<<Bucket, Flat>>)
TwoAndThree ==
    PyDict(<<Item("Reservations", PyList(<<Reservation(2), Reservation(3)>>))>>)

ServiceNames == {PyString("ec2"), PyString("storage-buckets")}

\* Well-formed service results: successful ones, failed ones that still
\* carry a payload, and ones without a success flag
GoodServiceResults ==
    {ServiceResult(n, PyBool(TRUE), p) :
        n \in ServiceNames, p \in {TwoBuckets, TwoAndThree, Flat}}
    \cup {ServiceResult(n, PyBool(FALSE), TwoBuckets) : n \in ServiceNames}
    \cup {PyDict(<<Item("service", PyString("ec2")),
                   Item("result", TwoAndThree)>>),
          PyDict(<<Item("service", PyString("storage-buckets")),
                   Item("success", PyBool(FALSE)),
                   Item("error", PyString("AccessDenied"))>>)}

\* Service results that do not have the expected shape: one that is no
\* mapping, one without 'service', an 'Instances' that is no sequence, a
\* reservation that is no mapping
MalformedServiceResults ==
    {PyString("timeout"),
     PyDict(<<Item("success", PyBool(TRUE)), Item("result", TwoBuckets)>>),
     ServiceResult(PyString("ec2"), PyBool(TRUE),
         PyDict(<<Item("Reservations",
                       PyList(<<PyDict(<<Item("Instances", None)>>)>>))>>)),
     ServiceResult(PyString("ec2"), PyBool(TRUE),
         PyDict(<<Item("Reservations", PyList(<<PyString("r-1")>>))>>))}

\* Further odd service results: 'Reservations' that is no list, a service
\* name that is no string
OddServiceResults ==
    {ServiceResult(PyString("ec2"), PyBool(TRUE),
         PyDict(<<Item("Reservations", None)>>)),
     ServiceResult(None, PyBool(TRUE), TwoBuckets),
     ServiceResult(PyList(<<PyString("ec2")>>), PyBool(FALSE), TwoBuckets)}

RegionResult(region, services) ==
    PyDict(<<Item("region", region), Item("services", services)>>)

Inventory(region_results) ==
    PyDict(<<Item("account_results", PyList(region_results))>>)

\* One inventory, one region, at most MaxServices well-formed service results
GoodResults ==
    {PyDict(<<Item("prod", Inventory(<<RegionResult(PyString("us-east-1"),
                                                    PyList(srs))>>))>>) :
        srs \in SeqsUpTo(GoodServiceResults, MaxServices)}

\* Several inventories and regions, an organization scan, a list of
\* ScanResult objects
WiderResults ==
    LET east == RegionResult(PyString("us-east-1"),
                    PyList(<<ServiceResult(PyString("ec2"), PyBool(TRUE),
                                           TwoAndThree)>>))
        west == RegionResult(PyString("us-west-2"),
                    PyList(<<ServiceResult(PyString("storage-buckets"),
                                           PyBool(TRUE), TwoBuckets),
                             ServiceResult(PyString("ec2"), PyBool(FALSE),
                                           TwoAndThree)>>))
    IN  {PyDict(<<>>),
         PyDict(<<Item("prod", Inventory(<<east, west>>)),
                  Item("dev", Inventory(<<west>>))>>),
         PyDict(<<Item("org", PyDict(<<Item("organization_results",
                                            PyList(<<east>>))>>))>>),
         PyList(<<ScanResult("prod", Inventory(<<east>>)),
                  ScanResult("dev", Inventory(<<west, east>>))>>),
         PyList(<<ScanResult("prod", Inventory(<<east>>)),
                  PyString("stray")>>)}

\* Results that do not have the expected shape: a region result that is no
\* mapping, a missing 'region' or 'services' key, 'services' that is no
\* sequence, malformed service results
MalformedResults ==
    LET ok == ServiceResult(PyString("storage-buckets"), PyBool(TRUE),
                            TwoBuckets)
    IN  {PyDict(<<Item("prod", Inventory(<<rr>>))>>) :
            rr \in {None, PyString("us-east-1"), PyInt(0),
                    PyDict(<<Item("services", PyList(<<ok>>))>>),
                    PyDict(<<Item("region", PyString("us-east-1"))>>),
                    RegionResult(PyString("us-east-1"), None)}}
        \cup {PyDict(<<Item("prod", Inventory(<<RegionResult(
                  PyString("us-east-1"), PyList(<<ok, sr>>))>>))>>) :
                 sr \in MalformedServiceResults}

\* Further odd results: a region name that is a list, odd service results,
\* an inventory that is no mapping or has no list of region results
OddResults ==
    LET ok == ServiceResult(PyString("storage-buckets"), PyBool(TRUE),
                            TwoBuckets)
    IN  {PyDict(<<Item("prod", Inventory(<<RegionResult(
             PyList(<<PyString("us-east-1")>>), PyList(<<ok>>))>>))>>),
         PyDict(<<Item("prod", PyString("failed"))>>),
         PyDict(<<Item("prod", PyDict(<<Item("account_results", None)>>))>>),
         PyDict(<<Item("prod", PyDict(<<>>))>>)}
        \cup {PyDict(<<Item("prod", Inventory(<<RegionResult(
                  PyString("us-east-1"), PyList(<<ok, sr>>))>>))>>) :
                 sr \in OddServiceResults}

\* One inventory, the region "us-east-1", the one successful service
\* "storage-buckets" with a list of two mappings
EndToEndResults ==
    {PyDict(<<Item("prod", Inventory(<<RegionResult(PyString("us-east-1"),
         PyList(<<ServiceResult(PyString("storage-buckets"), PyBool(TRUE),
                                PyList(<<a, b>>))>>))>>))>>) :
        a \in {Flat, Bucket}, b \in {Flat, Bucket}}

ResultsInputs ==
    GoodResults \cup WiderResults \cup MalformedResults \cup OddResults
        \cup EndToEndResults

\* Service names handed to _sanitize_sheet_name: every forbidden character
\* and two others, after a run of letters that brings the name to the
\* 31-character limit and beyond
NameChars == {"a", "-", "\\", "/", "*", "[", "]", ":", "?"}

RECURSIVE Repeat(_, _)
Repeat(c, n) == IF n <= 0 THEN "" ELSE c \o Repeat(c, n - 1)

RECURSIVE JoinChars(_, _)
JoinChars(cs, i) == IF i > Len(cs) THEN "" ELSE cs[i] \o JoinChars(cs, i + 1)

NameHeads ==
    {Repeat("x", n) : n \in {0, MaxSheetNameLen - 2, MaxSheetNameLen - 1,
                             MaxSheetNameLen}}

SheetNames ==
    {head \o JoinChars(cs, 1) :
        head \in NameHeads, cs \in SeqsUpTo(NameChars, MaxNameTail)}

FormatNames == {"json", "excel", "csv"}
FormatLists == SeqsUpTo(FormatNames, MaxFormats)

\* Every report input is run with each writer first and with the JSON
\* writer twice; every formats list is run on a few inputs: one both writers accept, one on which only
\* _generate_summary raises, one on which only _write_excel_file raises
ReportFormats ==
    {<<"json", "csv", "excel">>, <<"excel", "json">>, <<"json", "json">>}
DispatchResults ==
    {PyDict(<<>>),
     PyDict(<<Item("prod", Inventory(<<RegionResult(PyString("us-east-1"),
         PyList(<<ServiceResult(PyString("storage-buckets"), PyBool(TRUE),
                                TwoBuckets)>>))>>))>>),
     PyDict(<<Item("prod", Inventory(<<None>>))>>),
     PyDict(<<Item("prod", Inventory(<<RegionResult(PyString("us-east-1"),
         PyList(<<ServiceResult(PyString("ec2"), PyBool(TRUE),
                      PyDict(<<Item("Reservations", None)>>))>>))>>))>>)}

-----------------------------------------------------------------------------
(* Specifications *)

NoCall == [fn |-> "", inventory |-> None, region |-> None, service |-> None]

\* process(results, output_dir, formats) on a fresh output directory
Init ==
    /\ \/ results \in ResultsInputs /\ formats \in ReportFormats
       \/ results \in DispatchResults /\ formats \in FormatLists
    /\ PANDAS_AVAILABLE \in BOOLEAN
    /\ hash_seed \in HashSeeds
    /\ pos = 1
    /\ status = "running"
    /\ error = ""
    /\ files = <<>>
    /\ ran = <<>>
    /\ call = NoCall
    /\ arg = None
    /\ ret = None

Spec == Init /\ [][Next]_vars

\* The helpers applied on their own to one argument
Raised(exc) == [t |-> "raised", v |-> exc]

InitUnit ==
    /\ arg \in Payloads \cup ScanLists \cup {PyString(n) : n \in SheetNames}
    /\ call = NoCall
    /\ ret = None
    /\ results = PyDict(<<>>)
    /\ formats = <<>>
    /\ PANDAS_AVAILABLE = TRUE
    /\ hash_seed = 0
    /\ pos = 1
    /\ status = "unit"
    /\ error = ""
    /\ files = <<>>
    /\ ran = <<>>

ProcessVarsUnchanged ==
    UNCHANGED <<results, formats, PANDAS_AVAILABLE, hash_seed, pos, status,
                error, files, ran, arg>>

CallCountServiceResources ==
    /\ status = "unit" /\ call.fn = ""
    /\ call' = [call EXCEPT !.fn = "_count_service_resources"]
    /\ ret' = IF CountServiceResourcesRaises(arg) THEN Raised("TypeError")
              ELSE PyInt(CountServiceResources(arg))
    /\ ProcessVarsUnchanged

CallFlattenServiceResult ==
    /\ status = "unit" /\ call.fn = ""
    /\ \E inventory \in {"prod", "dev"}, service \in ServiceNames :
          /\ call' = [fn |-> "_flatten_service_result",
                      inventory |-> PyString(inventory),
                      region |-> PyString("us-east-1"),
                      service |-> service]
          /\ ret' = IF FlattenServiceResultRaises(arg, service)
                    THEN Raised("TypeError")
                    ELSE PyList(FlattenServiceResult(arg, PyString(inventory),
                                    PyString("us-east-1"), service))
    /\ ProcessVarsUnchanged

CallProcessResults ==
    /\ status = "unit" /\ call.fn = ""
    /\ call' = [call EXCEPT !.fn = "_process_results"]
    /\ ret' = ProcessResults(arg)
    /\ ProcessVarsUnchanged

\* name.replace is a method of str only
CallSanitizeSheetName ==
    /\ status = "unit" /\ call.fn = ""
    /\ call' = [call EXCEPT !.fn = "_sanitize_sheet_name"]
    /\ ret' = IF IsStr(arg) THEN PyString(SanitizeSheetName(arg.v))
              ELSE Raised("AttributeError")
    /\ ProcessVarsUnchanged

NextUnit ==
    \/ CallCountServiceResources
    \/ CallFlattenServiceResult
    \/ CallProcessResults
    \/ CallSanitizeSheetName

SpecUnit == InitUnit /\ [][NextUnit]_vars

-----------------------------------------------------------------------------
(* Properties *)

\* The complete workbook of a run in which the tabular writer returned
WorkbookWritten ==
    ExcelFile \in DOMAIN files /\ "incomplete" \notin DOMAIN files[ExcelFile]

SummaryWritten == SummaryFile \in DOMAIN files

\* A service result whose success flag is false or absent
Failed(service_result) ==
    IsDict(service_result)
    /\ ~Truthy(Get(service_result, "success", PyBool(FALSE)))

\* rs without its failed service results: every list of service results of a
\* well-formed region result loses the failed ones, all else stays
NotFailed(service_result) == ~Failed(service_result)
WithoutFailedInRegion(region_result) ==
    IF /\ IsDict(region_result) /\ HasKey(region_result, "services")
       /\ IsList(GetItem(region_result, "services"))
    THEN PyDict(SetItem(region_result.v, "services",
             PyList(SelectSeq(GetItem(region_result, "services").v, NotFailed))))
    ELSE region_result
WithoutFailedInInventory(inventory_data) ==
    IF /\ IsDict(inventory_data) /\ HasKey(inventory_data, "account_results")
       /\ IsList(GetItem(inventory_data, "account_results"))
    THEN LET rrs == GetItem(inventory_data, "account_results").v
         IN  PyDict(SetItem(inventory_data.v, "account_results",
                 PyList([i \in 1..Len(rrs) |-> WithoutFailedInRegion(rrs[i])])))
    ELSE inventory_data
WithoutFailed(rs) ==
    PyDict([i \in 1..Len(rs.v) |->
               Item(rs.v[i].k, WithoutFailedInInventory(rs.v[i].v))])

\* C1: a service result whose success flag is false or absent adds nothing
\* to the JSON summary's total_resources, per-inventory totals and
\* per-service tally (they are those of the results without it), its Excel
\* Summary row reports Resource Count 0, and it adds no record to any service
\* sheet (the sheets are those of the results without it), whatever its
\* 'result' payload holds.
C1_FailedContributesNothing ==
    LET processed == ProcessResults(results)
        kept == WithoutFailed(processed)
    IN  /\ SummaryWritten =>
               LET got == files[SummaryFile]
                   want == GenerateSummary(kept)
               IN  /\ got.total_resources = want.total_resources
                   /\ got.services = want.services
                   /\ Len(got.inventories) = Len(want.inventories)
                   /\ \A i \in 1..Len(got.inventories) :
                          got.inventories[i].v.total_resources
                              = want.inventories[i].v.total_resources
        /\ WorkbookWritten =>
               /\ files[ExcelFile].sheets = Workbook(kept).sheets
               /\ \A i \in 1..Len(VisitedServices(processed)) :
                      Failed(VisitedServices(processed)[i].sr) =>
                          files[ExcelFile].summary[i].ResourceCount = 0

\* Both files are written for results that hold a failed service result and
\* a service result without success flag, each with a payload of resources
C1_Witness ==
    /\ SummaryWritten /\ WorkbookWritten
    /\ \E i, j \in 1..Len(VisitedServices(ProcessResults(results))) :
          LET a == VisitedServices(ProcessResults(results))[i].sr
              b == VisitedServices(ProcessResults(results))[j].sr
          IN  /\ HasKey(a, "success") /\ Failed(a) /\ HasKey(a, "result")
              /\ CountServiceResources(GetItem(a, "result")) > 0
              /\ ~HasKey(b, "success") /\ HasKey(b, "result")
              /\ CountServiceResources(GetItem(b, "result")) > 0

\* The call of the unit specification that returned a value
Returned(fn) == status = "unit" /\ call.fn = fn /\ ret.t # "raised"

\* The precedence of the counter as the documentation states it
PriorityKeys ==
    <<"Reservations", "Buckets", "Roles", "Functions", "Instances", "Items">>
ListField(payload, key) == HasKey(payload, key) /\ IsList(GetItem(payload, key))
\* key is the first priority key under which payload holds a list
MatchedKey(payload, key) ==
    \E n \in 1..Len(PriorityKeys) :
        /\ PriorityKeys[n] = key
        /\ ListField(payload, key)
        /\ \A m \in 1..(n - 1) : ~ListField(payload, PriorityKeys[m])
NoMatchedKey(payload) ==
    \A n \in 1..Len(PriorityKeys) : ~ListField(payload, PriorityKeys[n])
\* i is the place of the first list among the values of payload
FirstListAt(payload, i) ==
    /\ IsList(payload.v[i].v)
    /\ \A j \in 1..(i - 1) : ~IsList(payload.v[j].v)

\* What C2 states of a returned count n for payload, for the matched keys in
\* the set keys
CounterPrecedence(payload, n, keys) ==
    /\ IsList(payload) => n = Len(payload.v)
    /\ IsDict(payload) =>
          /\ \A key \in keys :
                 MatchedKey(payload, key) => n = Len(GetItem(payload, key).v)
          /\ NoMatchedKey(payload) =>
                 /\ \A i \in 1..Len(payload.v) :
                        FirstListAt(payload, i) => n = Len(payload.v[i].v.v)
                 /\ (\A i \in 1..Len(payload.v) : ~IsList(payload.v[i].v))
                        => n = 0
    /\ ~IsList(payload) /\ ~IsDict(payload) => n = 0

\* C2 as stated: the count is the length of the first list found under the
\* priority keys Reservations, Buckets, Roles, Functions, Instances, Items,
\* else the length of the first list among the values, else 0; a list
\* payload counts its length.
C2_AsStated ==
    Returned("_count_service_resources") =>
        CounterPrecedence(arg, ret.v,
            {PriorityKeys[n] : n \in 1..Len(PriorityKeys)})

\* C2 (amended): the same precedence, where the length of the matched field
\* is returned for the matched keys Buckets, Roles, Functions, Instances and
\* Items only (a matched Reservations field is not counted by its length).
C2_OrderedPrecedence ==
    Returned("_count_service_resources") =>
        CounterPrecedence(arg, ret.v,
            {PriorityKeys[n] : n \in 2..Len(PriorityKeys)})

\* The counter returned for a dict that holds lists under two priority keys
\* and listed the later one first
C2_Witness ==
    /\ Returned("_count_service_resources")
    /\ IsDict(arg) /\ Len(arg.v) = 2
    /\ arg.v[1].k = "Items" /\ arg.v[2].k = "Buckets"
    /\ ListField(arg, "Items") /\ ListField(arg, "Buckets")
    /\ Len(arg.v[1].v.v) # Len(arg.v[2].v.v)
    /\ ret.v = Len(arg.v[2].v.v)

\* The instances of the reservations of payload: the pairs <<r, i>> where
\* the r-th reservation is a mapping with an "Instances" field of length at
\* least i
NestedInstances(payload) ==
    LET rsv == GetItem(payload, "Reservations").v
    IN  {<<r, i>> \in (1..Len(rsv)) \X (1..(MaxInstances + 1)) :
            /\ IsDict(rsv[r]) /\ HasKey(rsv[r], "Instances")
            /\ i <= Len(GetItem(rsv[r], "Instances").v)}

\* C3: when payload holds a list under 'Reservations', the count returned is
\* the number of nested instances of its reservations (a reservation that is
\* no mapping or has no 'Instances' adds 0), also when that number is 0 and
\* another field holds a list.
C3_ReservationsCountInstances ==
    (Returned("_count_service_resources") /\ IsDict(arg)
        /\ ListField(arg, "Reservations"))
    => ret.v = Cardinality(NestedInstances(arg))

\* Reservations of 2 and 3 instances count 5
C3_Witness ==
    /\ Returned("_count_service_resources")
    /\ arg = TwoAndThree
    /\ ret = PyInt(5)

\* The record C4 expects, as the set of its columns
ExpectedFlatRecord ==
    {Item("Inventory", call.inventory), Item("Region", call.region),
     Item("Service", call.service), Item("a", PyInt(1)),
     Item("b_c", PyInt(2))}
IsExpectedFlatRecord(value) ==
    /\ value.t = "list" /\ Len(value.v) = 1
    /\ {value.v[1].v[i] : i \in 1..Len(value.v[1].v)} = ExpectedFlatRecord
    /\ Len(value.v[1].v) = Cardinality(ExpectedFlatRecord)

\* C4 as stated: the flattener on the mapping payload {"a": 1, "b": {"c": 2}}
\* gives exactly one record, with the columns a = 1, b_c = 2 and the three
\* context columns.
C4_AsStated ==
    (status = "unit" /\ call.fn = "_flatten_service_result" /\ arg = Flat)
    => IsExpectedFlatRecord(ret)

\* C4 (amended): the flattener on the one-element list payload
\* [{"a": 1, "b": {"c": 2}}] gives exactly that one record, for every
\* context; on the bare mapping payload it gives no record.
C4_FlatMappingInList ==
    /\ (status = "unit" /\ call.fn = "_flatten_service_result"
           /\ arg = PyList(<<Flat>>))
       => IsExpectedFlatRecord(ret)
    /\ (status = "unit" /\ call.fn = "_flatten_service_result" /\ arg = Flat)
       => ret = PyList(<<>>)

C4_Witness ==
    /\ status = "unit" /\ call.fn = "_flatten_service_result"
    /\ arg = PyList(<<Flat>>)
    /\ call.service = PyString("ec2")
    /\ IsExpectedFlatRecord(ret)

\* The report of the end-to-end case, with the sheet named name
EndToEndReport(name) ==
    /\ SummaryWritten =>
          /\ files[SummaryFile].total_resources = 2
          /\ files[SummaryFile].total_regions = 1
          /\ files[SummaryFile].total_services = 1
    /\ WorkbookWritten =>
          /\ Len(files[ExcelFile].sheets) = 1
          /\ files[ExcelFile].sheets[1].name = name
          /\ Len(files[ExcelFile].sheets[1].rows) = 2

\* C5 as stated: for one inventory with the region "us-east-1" and the one
\* successful service "storage-buckets" with a payload of two mappings, the
\* JSON summary reports total_resources 2, total_regions 1, total_services 1
\* and the workbook holds a sheet "storage_buckets" of 2 rows.
C5_AsStated == results \in EndToEndResults => EndToEndReport("storage_buckets")

\* C5 (amended): the same, the sheet being named "storage-buckets" (a hyphen
\* is no forbidden character and is kept).
C5_EndToEnd == results \in EndToEndResults => EndToEndReport("storage-buckets")

C5_Witness ==
    /\ results \in EndToEndResults
    /\ status = "done"
    /\ SummaryWritten /\ WorkbookWritten
    /\ files[ExcelFile].sheets[1].name = "storage-buckets"

\* The files the writer of a format produces
FilesOfFormat(format_type) ==
    IF format_type = "json" THEN {MainFile, SummaryFile}
    ELSE IF format_type = "excel" THEN {ExcelFile}
    ELSE {}

\* C6: an unrecognized format identifier never makes process raise and gets
\* no file; the loop goes on past it, and when process returns every
\* recognized format of the list, before or after it, has run and has its
\* files.
C6_UnknownFormatSkipped ==
    /\ status = "raised" => formats[pos] \in KnownFormats
    /\ status = "running" => pos = Len(ran) + 1
    /\ \A i \in 1..Len(ran) :
          /\ ran[i].format = formats[i]
          /\ formats[i] \notin KnownFormats => ran[i].outcome = "skipped"
          /\ ran[i].outcome = "ok" => FilesOfFormat(formats[i]) \subseteq DOMAIN files
    /\ DOMAIN files \subseteq
          UNION {FilesOfFormat(formats[i]) : i \in 1..Len(ran)}
    /\ status = "done" =>
          /\ Len(ran) = Len(formats)
          /\ \A i \in 1..Len(formats) :
                 formats[i] \in KnownFormats =>
                     /\ ran[i].outcome = "ok"
                     /\ FilesOfFormat(formats[i]) \subseteq DOMAIN files

\* process returned for a list with a recognized format on either side of
\* an unrecognized one
C6_Witness ==
    /\ status = "done"
    /\ \E i, j, k \in 1..Len(formats) :
          /\ i < j /\ j < k
          /\ formats[i] = "json" /\ formats[j] = "csv" /\ formats[k] = "excel"
    /\ DOMAIN files = {MainFile, SummaryFile, ExcelFile}

\* C7 as stated: when the ImportError for the missing pandas is raised, no
\* output file has been created or written, for every formats list.
C7_AsStated ==
    (status = "raised" /\ error = "ImportError") => DOMAIN files = {}

\* C7 (amended): without pandas the tabular writer raises ImportError as
\* soon as it is reached and before it creates or writes a file of its own:
\* no workbook exists, and the only files in the directory are those the
\* json entries earlier in the list wrote (none if there is none).
C7_ImportErrorBeforeOwnFiles ==
    /\ error = "ImportError" =>
          /\ status = "raised"
          /\ formats[pos] = "excel"
          /\ ExcelFile \notin DOMAIN files
          /\ DOMAIN files =
                 IF \E i \in 1..(pos - 1) : formats[i] = "json"
                 THEN {MainFile, SummaryFile} ELSE {}
    /\ (~PANDAS_AVAILABLE /\ \E i \in 1..Len(ran) : ran[i].format = "excel")
          => (status = "raised" /\ error = "ImportError")

\* The ImportError raised after a json entry wrote its files
C7_Witness ==
    /\ status = "raised" /\ error = "ImportError"
    /\ ~PANDAS_AVAILABLE
    /\ DOMAIN files = {MainFile, SummaryFile}

\* The orders of the entries of a list
Perms(s) ==
    {[i \in 1..Len(s) |-> s[f[i]]] :
        f \in {g \in [1..Len(s) -> 1..Len(s)] :
                  \A a, b \in 1..Len(s) : a # b => g[a] # g[b]}}

\* C8 as stated: process run with any permutation of the formats list leaves
\* the same set of output files, also when a writer fails.
C8_AsStated ==
    status \in {"done", "raised"} =>
        \A p \in Perms(formats) : \E partial \in BOOLEAN :
            DOMAIN DispatchFrom(p, 1, <<>>, results, PANDAS_AVAILABLE,
                                partial).files = DOMAIN files

\* C8 (amended): when no writer raises, process run with any permutation of
\* the list returns and leaves the same files with the same content; a
\* writer that raises ends process at once: the entries before it have
\* completed and have their files, and no entry after it has run.
C8_OrderInsensitiveUnlessRaised ==
    /\ status = "done" =>
          \A p \in Perms(formats) :
              DispatchFrom(p, 1, <<>>, results, PANDAS_AVAILABLE, FALSE)
                  = [status |-> "done", files |-> files]
    /\ status = "raised" =>
          /\ Len(ran) = pos
          /\ ran[pos].outcome = "raised"
          /\ \A i \in 1..(pos - 1) :
                 /\ ran[i].outcome # "raised"
                 /\ FilesOfFormat(formats[i]) \subseteq DOMAIN files
          /\ DOMAIN files \subseteq
                 UNION {FilesOfFormat(formats[i]) : i \in 1..pos}

\* process returned after the tabular writer, then the JSON writer
C8_Witness ==
    /\ status = "done"
    /\ Len(formats) >= 2
    /\ formats[1] = "excel" /\ formats[2] = "json"
    /\ DOMAIN files = {MainFile, SummaryFile, ExcelFile}

\* The ScanResult objects of a list have different inventory names
UniqueInventoryNames(rs) ==
    \A i, j \in 1..Len(rs.v) :
        (i # j /\ rs.v[i].t = "obj" /\ rs.v[j].t = "obj")
            => rs.v[i].inventory_name # rs.v[j].inventory_name

\* C9 as stated: of a list (of distinctly named ScanResult objects and other
\* objects), every element without to_dict is found under result_<index>,
\* index its position in the list, and every element has its own entry in
\* the mapping returned.
C9_AsStated ==
    (Returned("_process_results") /\ IsList(arg) /\ UniqueInventoryNames(arg))
    => /\ \A i \in 1..Len(arg.v) :
              arg.v[i].t # "obj" =>
                  /\ HasKey(ret, "result_" \o IntStr(i - 1))
                  /\ GetItem(ret, "result_" \o IntStr(i - 1)) = arg.v[i]
       /\ Len(ret.v) = Len(arg.v)

\* C10 as stated: on results that do not have the expected shapes (a region
\* result or reservation that is no mapping, a missing 'region', 'services'
\* or 'service' key, a 'services' or 'Instances' value that is no sequence)
\* the summary builder, the counter and the flattener never raise: the only
\* exception that leaves process is the ImportError of the missing pandas,
\* and each writer that runs produces its report.
C10_AsStated ==
    results \in MalformedResults =>
        /\ status = "raised" => error = "ImportError"
        /\ \A i \in 1..Len(ran) :
               ran[i].format \in KnownFormats /\ error # "ImportError"
                   => FilesOfFormat(ran[i].format) \subseteq DOMAIN files

\* The service name of a visited service result
VisitedName(visit) == Get(visit.sr, "service", PyString("unknown"))

\* The records of the successful results of one service, in traversal order
RecordsOf(vis, service_name) ==
    Concat([i \in 1..Len(vis) |->
               IF Counted(vis[i].sr) /\ VisitedName(vis[i]) = service_name
               THEN FlattenServiceResult(GetItem(vis[i].sr, "result"),
                        PyString(vis[i].inventory), vis[i].region,
                        service_name)
               ELSE <<>>], 1)

SheetsOf(workbook, service_name, rows) ==
    {j \in 1..Len(workbook.sheets) :
        /\ workbook.sheets[j].name = SanitizeSheetName(service_name.v)
        /\ workbook.sheets[j].rows = rows}

\* C11 as stated: the workbook written has one sheet for every service name
\* encountered in the results, holding the records of that service from all
\* inventories and regions in traversal order
C11_AsStated ==
    WorkbookWritten =>
        LET vis == VisitedServices(ExcelProcessResults(results))
        IN  \A i \in 1..Len(vis) :
                IsStr(VisitedName(vis[i])) =>
                    Cardinality(SheetsOf(files[ExcelFile], VisitedName(vis[i]),
                        RecordsOf(vis, VisitedName(vis[i])))) = 1

\* C11, amended: the workbook written has one sheet for every service name
\* that has at least one flattened record (and no other sheet besides the
\* Summary); the sheet holds the records of the successful results of that
\* service from all inventories and regions, in traversal order; a service
\* name met only in failed results, or whose payloads give no record, has no
\* sheet
C11_SheetPerServiceWithRecords ==
    WorkbookWritten =>
        LET vis == VisitedServices(ExcelProcessResults(results))
            workbook == files[ExcelFile]
            names == {VisitedName(vis[i]) : i \in 1..Len(vis)}
            withRecords == {s \in names : RecordsOf(vis, s) # <<>>}
        IN  /\ Len(workbook.sheets) = Cardinality(withRecords)
            /\ \A s \in withRecords :
                   Cardinality(SheetsOf(workbook, s, RecordsOf(vis, s))) = 1
            /\ \A s \in names \ withRecords :
                   \A j \in 1..Len(workbook.sheets) :
                       \A r \in 1..Len(workbook.sheets[j].rows) :
                           GetItem(workbook.sheets[j].rows[r], "Service") # s

\* A workbook with a sheet fed by two inventories and a region whose failed
\* service result is the only one visited there for its service
C11_Witness ==
    /\ WorkbookWritten
    /\ LET vis == VisitedServices(ExcelProcessResults(results))
           workbook == files[ExcelFile]
       IN  /\ \E j \in 1..Len(workbook.sheets) :
                  \E a, b \in 1..Len(workbook.sheets[j].rows) :
                      /\ a < b
                      /\ GetItem(workbook.sheets[j].rows[a], "Inventory")
                             # GetItem(workbook.sheets[j].rows[b], "Inventory")
           /\ \E i \in 1..Len(vis) : ~Counted(vis[i].sr)
           /\ Len(workbook.sheets) >= 2

\* The characters a sheet name may not hold
ForbiddenChars == {"\\", "/", "*", "[", "]", ":", "?"}

ValidSheetName(s) ==
    /\ Len(s) <= 31
    /\ \A i \in 1..Len(s) : CharAt(s, i) \notin ForbiddenChars

\* C12: for every service name _sanitize_sheet_name returns a string of at
\* most 31 characters without forbidden character, in which each forbidden
\* character of the input is replaced by an underscore and every other
\* character is kept in place; a longer input is cut to its first 31
\* (substituted) characters, a valid input is returned unchanged
C12_SanitizedSheetName ==
    (Returned("_sanitize_sheet_name") /\ IsStr(arg)) =>
        LET name == arg.v
            sanitized == ret.v
        IN  /\ IsStr(ret)
            /\ ValidSheetName(sanitized)
            /\ Len(sanitized) = IF Len(name) > 31 THEN 31 ELSE Len(name)
            /\ \A i \in 1..Len(sanitized) :
                   CharAt(sanitized, i) =
                       IF CharAt(name, i) \in ForbiddenChars THEN "_"
                       ELSE CharAt(name, i)
            /\ ValidSheetName(name) => sanitized = name

\* A name of more than 31 characters with a forbidden character on each side
\* of the cut
C12_Witness ==
    /\ Returned("_sanitize_sheet_name") /\ IsStr(arg)
    /\ Len(arg.v) > 31
    /\ CharAt(arg.v, 31) \in ForbiddenChars
    /\ CharAt(arg.v, 32) \in ForbiddenChars
    /\ Len(ret.v) = 31
    /\ CharAt(ret.v, 31) = "_"

JsonRanOk ==
    /\ \E i \in 1..Len(ran) : ran[i] = [format |-> "json", outcome |-> "ok"]
    /\ MainFile \in DOMAIN files
    /\ SummaryFile \in DOMAIN files

C14_AsStated ==
    (Returned("_flatten_service_result")
        /\ ~ExcelCountServiceResourcesRaises(arg))
    => Len(ret.v) = ExcelCountServiceResources(arg)

\* The positions of the list-valued fields of a mapping payload
ListFields(payload) == {i \in 1..Len(payload.v) : IsList(payload.v[i].v)}

AllMappings(list) == \A i \in 1..Len(list.v) : IsDict(list.v[i])

\* Every reservation that is a mapping with "Instances" holds a list of
\* mappings there
InstancesAreMappings(reservations) ==
    \A i \in 1..Len(reservations.v) :
        LET reservation == reservations.v[i]
        IN  (IsDict(reservation) /\ HasKey(reservation, "Instances")) =>
                /\ IsList(GetItem(reservation, "Instances"))
                /\ AllMappings(GetItem(reservation, "Instances"))

\* The payloads on which the counter and the flattener agree
AgreeingPayload(payload, service) ==
    \/ IsList(payload)
    \/ /\ IsDict(payload)
       /\ service = PyString("ec2")
       /\ ListField(payload, "Reservations")
       /\ InstancesAreMappings(GetItem(payload, "Reservations"))
    \/ /\ IsDict(payload)
       /\ ~HasKey(payload, "Reservations")
       /\ Cardinality(ListFields(payload)) = 1
       /\ \A i \in ListFields(payload) : AllMappings(payload.v[i].v)

\* C14, amended: the count of the Summary row equals the number of records
\* of the flattener for a sequence payload, for a Reservations-shaped mapping
\* of the service "ec2" whose instances are mappings, and for a mapping
\* without "Reservations" that has exactly one list-valued field, holding
\* mappings only
C14_AgreementOnPlainShapes ==
    (Returned("_flatten_service_result")
        /\ AgreeingPayload(arg, call.service))
    => /\ ~ExcelCountServiceResourcesRaises(arg)
       /\ Len(ret.v) = ExcelCountServiceResources(arg)

\* Five instances in two reservations of "ec2", beside a list of buckets,
\* flattened to five records
C14_Witness ==
    /\ Returned("_flatten_service_result")
    /\ call.service = PyString("ec2")
    /\ IsDict(arg)
    /\ ListField(arg, "Reservations") /\ ListField(arg, "Buckets")
    /\ AgreeingPayload(arg, call.service)
    /\ Len(ret.v) = 5
    /\ ExcelCountServiceResources(arg) = 5

====
